---- MODULE Spec2Model ----
(***************************************************************************)
(* Model of NFL_Superbowl_Prediction.py: a single-shot script that loads   *)
(* Games.csv, Summary.csv and Teams.csv, joins them, cleans the joined     *)
(* table, fits a linear regression and predicts the two scores of the      *)
(* fixed matchup New England Patriots vs Seattle Seahawks.                 *)
(*                                                                         *)
(* A table is a record [cols, rows]: cols is the set of column names and   *)
(* rows a sequence of functions from cols to cells.  A cell is a record    *)
(* [k, v, s]: a float ("num", value v), a string that parses as the number *)
(* v ("numstr"), any other string s ("str") or a missing value ("nan").    *)
(***************************************************************************)
EXTENDS Integers, Sequences, FiniteSets, TLC

\* ------------------------------------------------------------------ bounds
\* Most rows of Games.csv.
MaxGames == 2
\* Most rows of Summary.csv and of Teams.csv.
MaxTeamRows == 2
\* Largest coefficient of a fitted model.
MaxCoef == 1

\* ------------------------------------------------------------------- cells
NaN == [k |-> "nan", v |-> 0, s |-> ""]
Num(n) == [k |-> "num", v |-> n, s |-> ""]
StrNum(n) == [k |-> "numstr", v |-> n, s |-> ""]
Str(t) == [k |-> "str", v |-> 0, s |-> t]

\* pd.isna
IsNa(c) == c.k = "nan"

\* pd.to_numeric(..., errors='coerce') on one value: a number stays, a
\* string that parses becomes its number, anything else becomes NaN.
ToNumeric(c) ==
    CASE c.k = "num" -> c
      [] c.k = "numstr" -> Num(c.v)
      [] OTHER -> NaN

\* ------------------------------------------------------------ fixed names
PATRIOTS == "New England Patriots"
SEAHAWKS == "Seattle Seahawks"
WPOS == "Weighted Playoff Offense Score"
MOMENTUM == "Offensive Momentum"
ALLOWED == "Average Points Allowed Per Game"
SCORED == "Average Points Scored Per Game"
TIER_RANK == "Defensive Tier Rank"

required_files == <<"Games.csv", "Summary.csv", "Teams.csv">>

features == <<WPOS, MOMENTUM, "opp_avg_points_allowed", "opp_def_tier">>

Range(f) == {f[i] : i \in DOMAIN f}

\* ----------------------------------------------------------- table algebra
\* DataFrame.rename(columns=m): present columns are renamed, others ignored.
Rename(t, m) ==
    LET New(c) == IF c \in DOMAIN m THEN m[c] ELSE c
        Old(n) == CHOOSE c \in t.cols : New(c) = n
        cols == {New(c) : c \in t.cols}
    IN [cols |-> cols,
        rows |-> [i \in DOMAIN t.rows |-> [n \in cols |-> t.rows[i][Old(n)]]]]

\* DataFrame[[...]] on present columns.
Project(t, keep) ==
    [cols |-> keep,
     rows |-> [i \in DOMAIN t.rows |-> [n \in keep |-> t.rows[i][n]]]]

\* DataFrame.drop(columns=d) on present columns.
DropCols(t, d) == Project(t, t.cols \ d)

RECURSIVE Flatten(_)
Flatten(ss) == IF ss = <<>> THEN <<>> ELSE Head(ss) \o Flatten(Tail(ss))

\* DataFrame.merge(how="left"): every left row, in order, paired with each
\* right row of equal key, or with missing values when there is none.
\* Columns of the same name on both sides (the key of an on= join excepted)
\* take the suffixes.
MergeCross(L, R, lk, rk, ls, rs) ==
    LET same == lk = rk
        overlap == (L.cols \cap R.cols) \ (IF same THEN {lk} ELSE {})
        LName(c) == IF c \in overlap THEN c \o ls ELSE c
        RName(c) == IF c \in overlap THEN c \o rs ELSE c
        rkept == IF same THEN R.cols \ {rk} ELSE R.cols
        lnames == {LName(c) : c \in L.cols}
        cols == lnames \cup {RName(c) : c \in rkept}
        Row(l, r) == [n \in cols |->
                        IF n \in lnames
                        THEN l[CHOOSE c \in L.cols : LName(c) = n]
                        ELSE r[CHOOSE c \in rkept : RName(c) = n]]
        Out(l) == [j \in DOMAIN R.rows |-> Row(l, R.rows[j])]
    IN [cols |-> cols,
        rows |-> Flatten([i \in DOMAIN L.rows |-> Out(L.rows[i])])]

Merge(L, R, lk, rk, ls, rs) ==
    LET same == lk = rk
        overlap == (L.cols \cap R.cols) \ (IF same THEN {lk} ELSE {})
        LName(c) == IF c \in overlap THEN c \o ls ELSE c
        RName(c) == IF c \in overlap THEN c \o rs ELSE c
        rkept == IF same THEN R.cols \ {rk} ELSE R.cols
        lnames == {LName(c) : c \in L.cols}
        cols == lnames \cup {RName(c) : c \in rkept}
        Row(l, r) == [n \in cols |->
                        IF n \in lnames
                        THEN l[CHOOSE c \in L.cols : LName(c) = n]
                        ELSE r[CHOOSE c \in rkept : RName(c) = n]]
        NoMatch(l) == [n \in cols |->
                        IF n \in lnames
                        THEN l[CHOOSE c \in L.cols : LName(c) = n]
                        ELSE NaN]
        Matches(l) == SelectSeq(R.rows, LAMBDA r : r[rk] = l[lk])
        Out(l) == IF Matches(l) = <<>>
                  THEN <<NoMatch(l)>>
                  ELSE [j \in DOMAIN Matches(l) |-> Row(l, Matches(l)[j])]
    IN [cols |-> cols,
        rows |-> Flatten([i \in DOMAIN L.rows |-> Out(L.rows[i])])]

\* pd.to_numeric(column, errors='coerce') assigned back to the column.
CoerceColumn(t, col) ==
    [cols |-> t.cols,
     rows |-> [i \in DOMAIN t.rows |->
                 [t.rows[i] EXCEPT ![col] = ToNumeric(@)]]]

\* DataFrame.dropna(subset=...): keep the rows with no missing value in any
\* column of the subset.
DropNaFirstOnly(t, subset) ==
    [cols |-> t.cols,
     rows |-> SelectSeq(t.rows, LAMBDA r : ~IsNa(r[WPOS]))]
DropNa(t, subset) ==
    [cols |-> t.cols,
     rows |-> SelectSeq(t.rows, LAMBDA r : \A c \in subset : ~IsNa(r[c]))]

\* The coercion-then-drop step of the cleaner.
CleanTable(t) == DropNa(CoerceColumn(t, WPOS), Range(features))

\* pd.read_csv type inference: a column whose non-empty fields all parse as
\* numbers is a float column; any other column keeps its fields as strings.
\* An empty field is a missing value either way.
ReadCsv(raw) ==
    LET Numeric(c) == \A i \in DOMAIN raw.rows : raw.rows[i][c].k # "str"
    IN [cols |-> raw.cols,
        rows |-> [i \in DOMAIN raw.rows |->
                    [c \in raw.cols |->
                        IF Numeric(c) THEN ToNumeric(raw.rows[i][c])
                        ELSE raw.rows[i][c]]]]

\* ------------------------------------------------------------ input files
GamesCsvCols ==
    {"Team", "Opponent", "Game #", "Points Scored", "Opponent Defensive Tier"}
SummaryCsvCols ==
    {"Team", "Tier 1 Avg Points", "Tier 2 Avg Points", "Tier 3 Avg Points",
     "Tier 4 Avg Points", MOMENTUM, WPOS}
TeamsCsvCols == {"Team", ALLOWED, SCORED, TIER_RANK}

\* The i-th line of each file, as written: text that parses as a number,
\* other text, or an empty field.  Numeric fields hold the line's number;
\* Teams.csv leaves Average Points Scored Per Game empty on its even lines.
GameLine(i, team, opp) ==
    [c \in GamesCsvCols \cup {MOMENTUM} |->
        CASE c = "Team" -> Str(team)
          [] c = "Opponent" -> Str(opp)
          [] OTHER -> StrNum(i)]
SummaryLine(i, team, wpos) ==
    [c \in SummaryCsvCols |->
        CASE c = "Team" -> Str(team)
          [] c = WPOS -> IF wpos = "number" THEN StrNum(i)
                         ELSE IF wpos = "dashes" THEN Str("--") ELSE NaN
          [] OTHER -> StrNum(i)]
TeamsLine(i, team) ==
    [c \in TeamsCsvCols |->
        CASE c = "Team" -> Str(team)
          [] c = SCORED -> IF i % 2 = 1 THEN StrNum(i) ELSE NaN
          [] OTHER -> StrNum(i)]

Matchups == {<<PATRIOTS, SEAHAWKS>>, <<SEAHAWKS, PATRIOTS>>}
TeamNames == {PATRIOTS, SEAHAWKS}

File(cols, lines) == [cols |-> cols, rows |-> [i \in DOMAIN lines |-> [c \in cols |-> lines[i][c]]]]

GamesFiles(cols) ==
    UNION {{File(cols, [i \in 1..n |-> GameLine(i, f[i][1], f[i][2])]) :
              f \in [1..n -> Matchups]} : n \in 0..MaxGames}
SummaryFiles(cols) ==
    UNION {{File(cols, [i \in 1..n |-> SummaryLine(i, f[i][1], f[i][2])]) :
              f \in [1..n -> TeamNames \X {"number", "dashes", "empty"}]} :
           n \in 0..MaxTeamRows}
TeamsFiles(cols) ==
    UNION {{File(cols, [i \in 1..n |-> TeamsLine(i, f[i])]) :
              f \in [1..n -> TeamNames]} : n \in 0..MaxTeamRows}

\* Files with the documented header line.
StandardGames == GamesFiles(GamesCsvCols)
StandardSummaries == SummaryFiles(SummaryCsvCols)
StandardTeams == TeamsFiles(TeamsCsvCols)

\* One file set with both teams in every table, the Seahawks' score
\* written as dashes and their average points scored left empty.
BothGames == File(GamesCsvCols \cup {MOMENTUM}, <<GameLine(1, PATRIOTS, SEAHAWKS)>>)
BothSummary ==
    File(SummaryCsvCols, <<SummaryLine(1, PATRIOTS, "number"),
                           SummaryLine(2, SEAHAWKS, "dashes")>>)
BothTeams ==
    File(TeamsCsvCols, <<TeamsLine(1, PATRIOTS), TeamsLine(2, SEAHAWKS)>>)

\* The same file set with another header line in one file: a documented
\* column left out, or (Games.csv) a column that Summary.csv has too.
OddHeaderInputs ==
    {[g |-> File(h, BothGames.rows), s |-> BothSummary, t |-> BothTeams] :
        h \in {GamesCsvCols \cup {MOMENTUM}} \cup
              {GamesCsvCols \ {c} :
                 c \in {"Points Scored", "Opponent Defensive Tier", "Opponent"}}}
    \cup
    {[g |-> File(GamesCsvCols, BothGames.rows), s |-> File(h, BothSummary.rows),
      t |-> BothTeams] :
        h \in {SummaryCsvCols \ {c} : c \in {WPOS, MOMENTUM, "Team"}}}
    \cup
    {[g |-> File(GamesCsvCols, BothGames.rows), s |-> BothSummary,
      t |-> File(h, BothTeams.rows)] :
        h \in {TeamsCsvCols \ {c} : c \in {ALLOWED, SCORED, TIER_RANK}}}

\* ------------------------------------------------------------ regression
\* LinearRegression().fit(X, y) rejects an empty table and any value that
\* is missing or does not convert to a float.
Convertible(c) == ~IsNa(ToNumeric(c))
CanFitAnything(t) == TRUE
CanFit(t) ==
    /\ Len(t.rows) >= 1
    /\ \A i \in DOMAIN t.rows :
         \A c \in Range(features) \cup {"points_scored"} : Convertible(t.rows[i][c])

\* The fitted model is some linear function of the four features.  Least
\* squares is not computed: any model that gives every feature the same
\* small weight is a possible fit.
SumTo(f, n) == IF n = 0 THEN 0 ELSE LET S[i \in 1..n] == f[i] + (IF i = 1 THEN 0 ELSE S[i - 1]) IN S[n]
Models ==
    {[intercept |-> 0, coef |-> [i \in 1..Len(features) |-> c]] : c \in 0..MaxCoef}
NoModel == [intercept |-> 0, coef |-> <<>>]

\* model.predict on one row, [0].
Predict(m, v) ==
    m.intercept + SumTo([i \in 1..Len(v) |-> m.coef[i] * ToNumeric(v[i]).v], Len(v))
CanPredict(v) == \A i \in DOMAIN v : Convertible(v[i])

\* ----------------------------------------------------------------- lookup
\* table[table["Team"] == name]
RowsOfAny(t, name) == t.rows
RowsOf(t, name) == SelectSeq(t.rows, LAMBDA r : r["Team"] = Str(name))

RECURSIVE Unique(_, _)
Unique(seq, seen) ==
    IF seq = <<>> THEN <<>>
    ELSE IF Head(seq) \in seen THEN Unique(Tail(seq), seen)
    ELSE <<Head(seq)>> \o Unique(Tail(seq), seen \cup {Head(seq)})

SampleLimit == 10
\* table['Team'].unique()[:10]
Sample(t) ==
    LET u == Unique([i \in DOMAIN t.rows |-> t.rows[i]["Team"].s], {})
    IN {u[i] : i \in {j \in DOMAIN u : j <= SampleLimit}}

\* ---------------------------------------------------------- feature rows
get_weighted_score_zero(team_off, team_def_data) ==
    LET score == ToNumeric(team_off[WPOS])
    IN IF IsNa(score) THEN Num(0) ELSE score
get_weighted_score(team_off, team_def_data) ==
    LET score == ToNumeric(team_off[WPOS])
    IN IF IsNa(score) THEN team_def_data[SCORED] ELSE score

\* The columns get_weighted_score reads that its arguments lack.
ScoreKeyErrors(team_off, team_def_data) ==
    IF WPOS \notin DOMAIN team_off THEN {WPOS}
    ELSE IF IsNa(ToNumeric(team_off[WPOS])) /\ SCORED \notin DOMAIN team_def_data
         THEN {SCORED} ELSE {}

\* pd.DataFrame([{...}], columns=features): the row in the order of features.
InOrder(row) == [i \in 1..Len(features) |-> row[features[i]]]

\* The columns the feature row of a team reads that the looked-up rows lack.
DfKeyErrors(team_off, team_def_data, opp_def) ==
    IF ScoreKeyErrors(team_off, team_def_data) # {}
    THEN ScoreKeyErrors(team_off, team_def_data)
    ELSE IF MOMENTUM \notin DOMAIN team_off THEN {MOMENTUM}
    ELSE IF ALLOWED \notin DOMAIN opp_def THEN {ALLOWED}
    ELSE IF TIER_RANK \notin DOMAIN opp_def THEN {TIER_RANK}
    ELSE {}

FeatureRow(score, team_off, opp_def) ==
    InOrder([c \in Range(features) |->
        CASE c = WPOS -> score
          [] c = MOMENTUM -> team_off[MOMENTUM]
          [] c = "opp_avg_points_allowed" -> opp_def[ALLOWED]
          [] OTHER -> opp_def[TIER_RANK]])

\* Lines 142-148: the Patriots' row from pat_off, their own Teams.csv row and sea_def.
PatDf(p_off, p_team, s_def) == FeatureRow(get_weighted_score(p_off, p_team), p_off, s_def)

\* Lines 159-165: the Seahawks' row from sea_off, their own Teams.csv row and pat_def.
SeaDfOwnDefense(s_off, s_team, p_def) == FeatureRow(get_weighted_score(s_off, s_team), s_off, s_team)
SeaDf(s_off, s_team, p_def) == FeatureRow(get_weighted_score(s_off, s_team), s_off, p_def)

\* ------------------------------------------------------------------ state
VARIABLES
    pc,          \* the statement group the script is at
    exit_status, \* -1 while running, then the process exit status
    trace,       \* the statement groups entered so far
    out,         \* everything printed so far
    exists,      \* os.path.exists of each required file
    games, summary, teams, teams_opp,
    model, mean_weighted_score,
    pat_off, sea_def, sea_off, pat_def,
    pat_df, sea_df, pat_pred, sea_pred,
    winner, margin

tables == <<games, summary, teams, teams_opp>>
lookups == <<pat_off, sea_def, sea_off, pat_def>>
predictions == <<pat_df, sea_df, pat_pred, sea_pred, winner, margin>>
vars == <<pc, exit_status, trace, out, exists, tables, model, mean_weighted_score,
          lookups, predictions>>

Msg(tag, names, avail) == [tag |-> tag, names |-> names, avail |-> avail]
Say(tag) == Msg(tag, {}, {})
NoTable == [cols |-> {}, rows |-> <<>>]
NoRow == <<>>

\* What every statement group does first.
Enter(stage) == pc = stage /\ trace' = Append(trace, stage)

\* Falling through to the next statement group, having printed msgs.
Goto(stage, msgs) ==
    /\ out' = out \o msgs
    /\ pc' = stage
    /\ UNCHANGED exit_status

\* sys.exit(1) after printing msgs.
Exit1(msgs) ==
    /\ out' = out \o msgs
    /\ exit_status' = 1
    /\ pc' = "done"

\* An exception no handler catches: the interpreter prints the traceback,
\* which names what the exception carries, and exits with status 1.
Uncaught(exc, names) == Exit1(<<Msg("Traceback " \o exc, names, {})>>)

Init ==
    /\ pc = "check"
    /\ exit_status = -1
    /\ trace = <<>>
    /\ out = <<>>
    /\ exists \in [Range(required_files) -> BOOLEAN]
    /\ games = NoTable
    /\ summary = NoTable
    /\ teams = NoTable
    /\ teams_opp = NoTable
    /\ model = NoModel
    /\ mean_weighted_score = [sum |-> 0, count |-> 0]
    /\ pat_off = NoRow /\ sea_def = NoRow /\ sea_off = NoRow /\ pat_def = NoRow
    /\ pat_df = <<>> /\ sea_df = <<>>
    /\ pat_pred = 0 /\ sea_pred = 0
    /\ winner = "" /\ margin = 0

CheckFilesNoExit ==
    /\ Enter("check")
    /\ LET absent == {i \in DOMAIN required_files : ~exists[required_files[i]]}
           first == CHOOSE i \in absent : \A j \in absent : i <= j
       IN IF absent # {}
          THEN Goto("read", <<Msg("ERROR not found", {required_files[first]}, {}),
                              Say("Current directory")>>)
          ELSE Goto("read", <<>>)
    /\ UNCHANGED <<exists, tables, model, mean_weighted_score, lookups, predictions>>

\* Lines 7-12.
CheckFiles ==
    /\ Enter("check")
    /\ LET absent == {i \in DOMAIN required_files : ~exists[required_files[i]]}
           first == CHOOSE i \in absent : \A j \in absent : i <= j
       IN IF absent # {}
          THEN Exit1(<<Msg("ERROR not found", {required_files[first]}, {}),
                       Say("Current directory")>>)
          ELSE Goto("read", <<>>)
    /\ UNCHANGED <<exists, tables, model, mean_weighted_score, lookups, predictions>>

\* Lines 14-23.
ReadFiles ==
    /\ Enter("read")
    /\ \/ /\ Exit1(<<Say("ERROR could not find")>>)
          /\ UNCHANGED <<games, summary, teams>>
       \/ /\ Exit1(<<Say("ERROR reading")>>)
          /\ UNCHANGED <<games, summary, teams>>
       \/ /\ \/ \E g \in StandardGames, s \in StandardSummaries, t \in StandardTeams :
                  /\ games' = ReadCsv(g)
                  /\ summary' = ReadCsv(s)
                  /\ teams' = ReadCsv(t)
             \/ \E d \in OddHeaderInputs :
                  /\ games' = ReadCsv(d.g)
                  /\ summary' = ReadCsv(d.s)
                  /\ teams' = ReadCsv(d.t)
          /\ Goto("rename", <<>>)
    /\ UNCHANGED <<exists, teams_opp, model, mean_weighted_score, lookups, predictions>>

\* Lines 25-39.
RenameColumns ==
    /\ Enter("rename")
    /\ games' = Rename(games, [c \in {"Points Scored", "Opponent Defensive Tier", "Game #"} |->
                   CASE c = "Points Scored" -> "points_scored"
                     [] c = "Opponent Defensive Tier" -> "opp_def_tier"
                     [] OTHER -> "game_num"])
    /\ summary' = Rename(summary, [c \in {"Tier 1 Avg Points", "Tier 2 Avg Points",
                                          "Tier 3 Avg Points", "Tier 4 Avg Points"} |->
                   CASE c = "Tier 1 Avg Points" -> "tier1_avg"
                     [] c = "Tier 2 Avg Points" -> "tier2_avg"
                     [] c = "Tier 3 Avg Points" -> "tier3_avg"
                     [] OTHER -> "tier4_avg"])
    /\ LET wanted == {"Team", ALLOWED}
       IN IF wanted \subseteq teams.cols
          THEN /\ teams_opp' = Rename(Project(teams, wanted),
                                      [c \in {ALLOWED} |-> "opp_avg_points_allowed"])
               /\ Goto("merge_summary", <<>>)
          ELSE /\ Uncaught("KeyError", wanted \ teams.cols)
               /\ UNCHANGED teams_opp
    /\ UNCHANGED <<exists, teams, model, mean_weighted_score, lookups, predictions>>

\* Lines 42-46.
MergeSummary ==
    /\ Enter("merge_summary")
    /\ IF "Team" \in games.cols /\ "Team" \in summary.cols
       THEN /\ games' = Merge(games, summary, "Team", "Team", "_x", "_y")
            /\ Goto("merge_opponent", <<>>)
       ELSE /\ Uncaught("KeyError", {"Team"})
            /\ UNCHANGED games
    /\ UNCHANGED <<exists, summary, teams, teams_opp, model, mean_weighted_score,
                   lookups, predictions>>

\* Lines 47-53.
MergeOpponent ==
    /\ Enter("merge_opponent")
    /\ IF ~("Opponent" \in games.cols /\ "Team" \in teams_opp.cols)
       THEN /\ Uncaught("KeyError", {"Opponent"} \ games.cols)
            /\ UNCHANGED games
       ELSE LET merged == Merge(games, teams_opp, "Opponent", "Team", "", "_opp")
            IN IF "Team_opp" \in merged.cols
               THEN /\ games' = DropCols(merged, {"Team_opp"})
                    /\ Goto("clean", <<>>)
               ELSE /\ Uncaught("KeyError", {"Team_opp"})
                    /\ UNCHANGED games
    /\ UNCHANGED <<exists, summary, teams, teams_opp, model, mean_weighted_score,
                   lookups, predictions>>

\* Lines 55-65.
Clean ==
    /\ Enter("clean")
    /\ IF WPOS \notin games.cols
       THEN /\ Uncaught("KeyError", {WPOS})
            /\ UNCHANGED games
       ELSE LET coerced == CoerceColumn(games, WPOS)
            IN IF ~(Range(features) \subseteq coerced.cols)
               THEN /\ Uncaught("KeyError", Range(features) \ coerced.cols)
                    /\ games' = coerced
               ELSE /\ games' = CleanTable(games)
                    /\ Goto("import", <<Say("Loaded games"), Say("Features")>>)
    /\ UNCHANGED <<exists, summary, teams, teams_opp, model, mean_weighted_score,
                   lookups, predictions>>

\* Lines 72-77.
ImportSklearn ==
    /\ Enter("import")
    /\ \/ Goto("train", <<>>)
       \/ Exit1(<<Say("ERROR scikit-learn is not installed"), Say("Error details")>>)
    /\ UNCHANGED <<exists, tables, model, mean_weighted_score, lookups, predictions>>

\* Lines 88-111.
Train ==
    /\ Enter("train")
    /\ LET missing_features == {f \in Range(features) : f \notin games.cols}
           available == Msg("Available columns", {}, games.cols)
       IN IF ~(Range(features) \subseteq games.cols)
          THEN /\ Exit1(<<Msg("ERROR Missing column", Range(features) \ games.cols, {}),
                          available>>)
               /\ UNCHANGED model
          ELSE IF "points_scored" \notin games.cols
          THEN /\ Exit1(<<Msg("ERROR Missing column", {"points_scored"}, {}), available>>)
               /\ UNCHANGED model
          ELSE IF missing_features # {}
          THEN /\ Exit1(<<Msg("ERROR Missing features", missing_features, {}), available>>)
               /\ UNCHANGED model
          ELSE IF ~CanFit(games)
          THEN /\ Exit1(<<Say("ERROR during model training"), Say("Traceback ValueError")>>)
               /\ UNCHANGED model
          ELSE /\ model' \in Models
               /\ Goto("lookup", <<Say("MODEL TRAINED")>>)
    /\ UNCHANGED <<exists, tables, mean_weighted_score, lookups, predictions>>

\* Lines 114-131.
Lookup ==
    /\ Enter("lookup")
    /\ mean_weighted_score' =
         [sum |-> SumTo([i \in DOMAIN games.rows |-> games.rows[i][WPOS].v], Len(games.rows)),
          count |-> Len(games.rows)]
    /\ IF ~("Team" \in summary.cols /\ "Team" \in teams.cols)
       THEN /\ Exit1(<<Say("ERROR retrieving team data")>>)
            /\ UNCHANGED lookups
       ELSE IF \E t \in TeamNames : RowsOf(summary, t) = <<>> \/ RowsOf(teams, t) = <<>>
       THEN /\ Exit1(<<Msg("ERROR Could not find team data", {PATRIOTS, SEAHAWKS}, {}),
                       Msg("Available teams in summary", {}, Sample(summary)),
                       Msg("Available teams in teams", {}, Sample(teams))>>)
            /\ UNCHANGED lookups
       ELSE /\ pat_off' = Head(RowsOf(summary, PATRIOTS))
            /\ sea_def' = Head(RowsOf(teams, SEAHAWKS))
            /\ sea_off' = Head(RowsOf(summary, SEAHAWKS))
            /\ pat_def' = Head(RowsOf(teams, PATRIOTS))
            /\ Goto("patriots", <<>>)
    /\ UNCHANGED <<exists, tables, model, predictions>>

\* Lines 142-151.
PredictPatriots ==
    /\ Enter("patriots")
    /\ LET own == Head(RowsOf(teams, PATRIOTS))
           bad == DfKeyErrors(pat_off, own, sea_def)
           df == PatDf(pat_off, own, sea_def)
       IN IF bad # {}
          THEN /\ Uncaught("KeyError", bad)
               /\ UNCHANGED <<pat_df, pat_pred>>
          ELSE /\ pat_df' = df
               /\ IF CanPredict(df)
                  THEN /\ pat_pred' = Predict(model, df)
                       /\ Goto("header", <<>>)
                  ELSE /\ Uncaught("ValueError", {})
                       /\ UNCHANGED pat_pred
    /\ UNCHANGED <<exists, tables, model, mean_weighted_score, lookups,
                   sea_df, sea_pred, winner, margin>>

\* Lines 153-155.
PrintHeader ==
    /\ Enter("header")
    /\ Goto("seahawks", <<Say("PREDICTION")>>)
    /\ UNCHANGED <<exists, tables, model, mean_weighted_score, lookups, predictions>>

\* Lines 159-167.
PredictSeahawks ==
    /\ Enter("seahawks")
    /\ LET own == Head(RowsOf(teams, SEAHAWKS))
           bad == DfKeyErrors(sea_off, own, pat_def)
           df == SeaDf(sea_off, own, pat_def)
       IN IF bad # {}
          THEN /\ Uncaught("KeyError", bad)
               /\ UNCHANGED <<sea_df, sea_pred>>
          ELSE /\ sea_df' = df
               /\ IF CanPredict(df)
                  THEN /\ sea_pred' = Predict(model, df)
                       /\ Goto("report", <<>>)
                  ELSE /\ Uncaught("ValueError", {})
                       /\ UNCHANGED sea_pred
    /\ UNCHANGED <<exists, tables, model, mean_weighted_score, lookups,
                   pat_df, pat_pred, winner, margin>>

\* Lines 173-182.
WinnerNoTie(p, s) == IF p >= s THEN PATRIOTS ELSE SEAHAWKS
Winner(p, s) == IF p > s THEN PATRIOTS ELSE IF s > p THEN SEAHAWKS ELSE "Tie"
Margin(p, s) == IF p > s THEN p - s ELSE IF s > p THEN s - p ELSE 0

\* Lines 170-190, and the end of the script.
Report ==
    /\ Enter("report")
    /\ winner' = Winner(pat_pred, sea_pred)
    /\ margin' = Margin(pat_pred, sea_pred)
    /\ out' = out \o <<Say("Patriots points"), Say("Seahawks points")>> \o
              (IF winner' # "Tie"
               THEN <<Msg("PREDICTED WINNER", {winner'}, {}), Say("Predicted Margin")>>
               ELSE <<Msg("PREDICTED RESULT", {winner'}, {})>>)
    /\ exit_status' = 0
    /\ pc' = "done"
    /\ UNCHANGED <<exists, tables, model, mean_weighted_score, lookups,
                   pat_df, sea_df, pat_pred, sea_pred>>

Next ==
    \/ CheckFiles \/ ReadFiles \/ RenameColumns \/ MergeSummary \/ MergeOpponent \/ Clean
    \/ ImportSklearn \/ Train \/ Lookup
    \/ PredictPatriots \/ PrintHeader \/ PredictSeahawks \/ Report

Spec == Init /\ [][Next]_vars

\* ------------------------------------------------------------- properties
Done == pc = "done"
Entered(stage) == \E i \in DOMAIN trace : trace[i] = stage
Printed(tag) == \E i \in DOMAIN out : out[i].tag = tag
LastStage == trace[Len(trace)]
AbsentFiles == {f \in Range(required_files) : ~exists[f]}
PredictionOutput ==
    {"PREDICTION", "Patriots points", "Seahawks points", "PREDICTED WINNER",
     "Predicted Margin", "PREDICTED RESULT"}
NothingPredicted == \A i \in DOMAIN out : out[i].tag \notin PredictionOutput
NothingLoaded ==
    /\ games = NoTable /\ summary = NoTable /\ teams = NoTable /\ teams_opp = NoTable
    /\ model = NoModel /\ pat_df = <<>> /\ sea_df = <<>>

\* The teams a table names, and the fixed teams it does not.
NamesIn(t) == {t.rows[i]["Team"].s : i \in DOMAIN t.rows}
MissingTeams == {t \in TeamNames : t \notin NamesIn(summary) \/ t \notin NamesIn(teams)}
UniqueTeams(t) ==
    \A i, j \in DOMAIN t.rows : i # j => t.rows[i]["Team"] # t.rows[j]["Team"]

\* C1: no file is read unless all three required files exist; when one is
\* absent the run ends with exit status 1 having printed the name of an
\* absent file (the first in the required order) and the working
\* directory, and nothing else has run: no read, join, cleaning, fit or
\* prediction.
C1_MissingFileStopsBeforeRead ==
    /\ Entered("read") => AbsentFiles = {}
    /\ (Done /\ AbsentFiles # {}) =>
         /\ exit_status = 1
         /\ trace = <<"check">>
         /\ Len(out) = 2
         /\ out[1].tag = "ERROR not found"
         /\ \E f \in AbsentFiles :
              /\ out[1].names = {f}
              /\ \A i, j \in DOMAIN required_files :
                   (required_files[i] = f /\ required_files[j] \in AbsentFiles) => i <= j
         /\ out[2].tag = "Current directory"
         /\ NothingLoaded

C1_Witness ==
    /\ Done
    /\ AbsentFiles = {"Summary.csv"}
    /\ out[1].names = {"Summary.csv"}

C3_MissingColumnIsReported ==
    (Done /\ Entered("clean") /\ ~(Range(features) \subseteq games.cols)) =>
        /\ exit_status = 1
        /\ model = NoModel
        /\ \E i \in DOMAIN out :
             /\ out[i].names # {}
             /\ out[i].names \subseteq Range(features) \ games.cols
        /\ \E i \in DOMAIN out :
             /\ out[i].tag = "Available columns"
             /\ out[i].avail = games.cols

\* C4 (as claimed): a run that ends in an error has exit status 1 and has
\* printed no part of the prediction output; a run with exit status 0 has
\* printed the header, both scores and the winner or tie declaration.
C4_NoPartialPrediction ==
    Done =>
        /\ exit_status \in {0, 1}
        /\ exit_status = 1 => NothingPredicted
        /\ exit_status = 0 =>
             /\ Printed("PREDICTION")
             /\ Printed("Patriots points")
             /\ Printed("Seahawks points")
             /\ Printed("PREDICTED WINNER") \/ Printed("PREDICTED RESULT")

\* Numeric coercion of a value succeeds when it is a number or text that
\* parses as one.
Parses(c) == c.k \in {"num", "numstr"}
ScoreAsClaimed(df, off, def) ==
    /\ Parses(off[WPOS]) => df[1] = Num(off[WPOS].v)
    /\ SCORED \notin DOMAIN def => Parses(off[WPOS])
    /\ SCORED \in DOMAIN def =>
         /\ ~Parses(off[WPOS]) => df[1] = def[SCORED]
         /\ (df[1] = def[SCORED] /\ def[SCORED] # Num(off[WPOS].v)) => ~Parses(off[WPOS])
         /\ ~IsNa(def[SCORED]) => ~IsNa(df[1])

C6_WinnerAndMargin ==
    (Done /\ exit_status = 0) =>
        /\ pat_pred > sea_pred =>
             winner = PATRIOTS /\ margin = pat_pred - sea_pred /\ margin >= 0
        /\ sea_pred > pat_pred =>
             winner = SEAHAWKS /\ margin = sea_pred - pat_pred /\ margin >= 0
        /\ pat_pred = sea_pred => winner = "Tie" /\ margin = 0
        /\ Cardinality({i \in DOMAIN out :
                          out[i].tag \in {"PREDICTED WINNER", "PREDICTED RESULT"}}) = 1
        /\ \A i \in DOMAIN out :
             /\ out[i].tag = "PREDICTED WINNER" => out[i].names = {winner} /\ winner # "Tie"
             /\ out[i].tag = "PREDICTED RESULT" => winner = "Tie"

C6_Witness ==
    /\ Done
    /\ exit_status = 0
    /\ pat_pred = sea_pred
    /\ pat_pred > 0
    /\ winner = "Tie"

\* C7: when team names are unique in the summary table and in the defense
\* table, no step from the first join on adds a row to the games table, so
\* its row count never exceeds that of the games table as loaded.
C7_JoinsAddNoRows ==
    [][(Entered("rename") /\ "Team" \in summary.cols /\ UniqueTeams(summary)
          /\ UniqueTeams(teams))
        => Len(games'.rows) <= Len(games.rows)]_vars

C7_Witness ==
    /\ pc = "import"
    /\ UniqueTeams(summary) /\ UniqueTeams(teams)
    /\ NamesIn(summary) = TeamNames /\ NamesIn(teams) = TeamNames
    /\ Len(games.rows) = 2

\* C8: the two feature rows mirror each other: the row the Patriots' code
\* builds from the Seahawks' rows is the Seahawks' row and the other way
\* round; each row has length 4 and holds, in the trained order, the
\* team's own weighted score and momentum and the opponent's average points
\* allowed and defensive tier.
C8_MirrorImageRows ==
    sea_df # <<>> =>
        /\ PatDf(sea_off, sea_def, pat_def) = sea_df
        /\ SeaDf(pat_off, pat_def, sea_def) = pat_df
        /\ Len(pat_df) = 4 /\ Len(sea_df) = 4
        /\ pat_df[2] = pat_off[MOMENTUM] /\ sea_df[2] = sea_off[MOMENTUM]
        /\ pat_df[3] = sea_def[ALLOWED] /\ sea_df[3] = pat_def[ALLOWED]
        /\ pat_df[4] = sea_def[TIER_RANK] /\ sea_df[4] = pat_def[TIER_RANK]
        /\ features = <<WPOS, MOMENTUM, "opp_avg_points_allowed", "opp_def_tier">>

C8_Witness ==
    /\ sea_df # <<>>
    /\ pat_df[3] # sea_df[3]
    /\ pat_df[2] # sea_df[2]

\* C9: once the table is cleaned, cleaning it again changes nothing, and no
\* row of it misses any of the four features.
C9_CleaningIsIdempotent ==
    Printed("Loaded games") =>
        /\ CleanTable(games) = games
        /\ Len(CleanTable(games).rows) = Len(games.rows)
        /\ \A i \in DOMAIN games.rows :
             \A f \in Range(features) : games.rows[i][f].k # "nan"

C9_Witness ==
    /\ pc = "import"
    /\ Len(games.rows) = 1
    /\ \E i \in DOMAIN summary.rows : summary.rows[i][WPOS] = Str("--")
    /\ \E i \in DOMAIN summary.rows : summary.rows[i][WPOS].k = "numstr"

\* C10: when cleaning leaves no rows, cleaning itself has not ended the
\* run; the run ends with exit status 1 in the model training section
\* (with the training error once scikit-learn is imported), before any
\* team lookup, and no prediction is made from a model fitted on no rows.
C10_EmptyTrainingSetFailsInTraining ==
    (Printed("Loaded games") /\ Len(games.rows) = 0) =>
        /\ pc \in {"import", "train", "done"}
        /\ model = NoModel
        /\ ~Entered("lookup")
        /\ NothingPredicted
        /\ Done =>
             /\ exit_status = 1
             /\ LastStage \in {"import", "train"}
             /\ LastStage = "train" => Printed("ERROR during model training")
             /\ ~Printed("MODEL TRAINED")

C10_Witness ==
    /\ Done
    /\ Printed("Loaded games")
    /\ Len(games.rows) = 0
    /\ Printed("ERROR during model training")
====
